---- MODULE Spec2Model ----
(***************************************************************************)
(* The resumable crawler of src/scrape.py as a state machine.              *)
(*                                                                         *)
(* A URL is a sequence of string tokens ("https://", host, path pieces,    *)
(* "?", "#", ...); the string operations of the code (split, "in",         *)
(* endswith, urljoin) are modelled on tokens.  One process at a time runs  *)
(* load_state, the crawl loop and save_state; it can be interrupted        *)
(* (KeyboardInterrupt, handled in __main__) or killed at any position, and *)
(* a new process can then be started on the files the old one left.        *)
(***************************************************************************)
EXTENDS Integers, Sequences, FiniteSets, TLC

\* ------------------------------------------------------------- bounds
\* MAX_ARTICLES is 10000 in the source (scrape.py:13); the model scales it.
MAX_ARTICLES == 2
\* A limit no crawl of the modelled site can reach (SpecNoLimit).
NoLimit == MAX_ARTICLES + 3
\* Number of processes started one after the other.
MaxRuns == 2
\* Number of events of the environment: injected I/O failures (fetch, file
\* write, remove, rename, load), firings of the SAVE_STATE_INTERVAL timer,
\* KeyboardInterrupts and kills.
MaxEvents == 3

\* ------------------------------------------------------------- URLs
Dom == "civilization.fandom.com"
Civ5 == "_(Civ5)"
START_URL == <<"https://", Dom, "/wiki/", "Civilization_V">>
kasbah_url == <<"https://", Dom, "/wiki/", "Kasbah", Civ5>>
ArticleA == <<"https://", Dom, "/wiki/", "Archer", Civ5>>

Min(S) == CHOOSE x \in S : \A y \in S : x <= y
Max(S) == CHOOSE x \in S : \A y \in S : x >= y
Range(s) == {s[i] : i \in DOMAIN s}
Contains(s, t) == \E i \in DOMAIN s : s[i] = t

\* s.split(t)[0]
BeforeTok(s, t) ==
  LET I == {i \in DOMAIN s : s[i] = t}
  IN  IF I = {} THEN s ELSE SubSeq(s, 1, Min(I) - 1)

\* Norm without line 211: the query is kept.
Norm_KeepQuery(u) == BeforeTok(u, "#")

\* url.split('#')[0] then url.split('?')[0]
Norm(u) == BeforeTok(BeforeTok(u, "#"), "?")

\* urlparse(url).path: what follows scheme and host, up to '?' or '#'
Path(u) == LET n == Norm(u) IN SubSeq(n, 3, Len(n))

\* urljoin(base, href) for absolute and for path-absolute references
urljoin(base, href) ==
  IF href # <<>> /\ Head(href) = "https://" THEN href
  ELSE <<base[1], base[2]>> \o href

LangSegs == {"/fi/", "/de/", "/fr/", "/es/", "/it/", "/ja/", "/ko/", "/pl/",
             "/pt/", "/ru/", "/zh/"}
Namespaces == {"Category:", "Talk:", "Category_talk:"}

is_valid_civ5_article(u) ==
  IF u = START_URL THEN TRUE
  ELSE IF ~Contains(u, Dom) THEN FALSE
  ELSE LET path == Path(u) IN
    IF \E l \in LangSegs : Contains(path, l) THEN FALSE
    ELSE IF \E x \in Namespaces : Contains(path, x) THEN FALSE
    ELSE IF path = <<>> \/ path[Len(path)] # Civ5 THEN FALSE
    ELSE IF Contains(path, "/Civilopedia") THEN FALSE
    ELSE TRUE

\* Tokens that end with '/': url.split('/')[-1] is what follows the last one.
SlashToks == {"https://", "/wiki/", "/explore/"} \cup LangSegs

Filename(u) ==
  LET I == {i \in DOMAIN u : u[i] \in SlashToks}
      name == IF I = {} THEN u ELSE SubSeq(u, Max(I) + 1, Len(u))
  IN  SelectSeq(name, LAMBDA t : t # Civ5) \o <<".html">>

\* ------------------------------------------------------------- the site
\* The href attributes of the anchors of each page, in document order.
Hrefs(u) ==
  IF u = START_URL THEN
    << <<"#", "top">>,
       <<"/wiki/", "Archer", Civ5>>,
       <<"/wiki/", "Civilization_V", "?", "action=history">>,
       <<"/wiki/", "Category:", "Units">>,
       <<"https://", "www.fandom.com", "/explore/", "games">> >>
  ELSE IF u = kasbah_url THEN
    << <<"/wiki/", "Archer", Civ5, "#", "Strategy">>,
       <<"https://", Dom, "/wiki/", "Civilization_V">> >>
  ELSE IF u = ArticleA THEN
    << <<"javascript:", "void(0)">>,
       <<"/wiki/", "Kasbah", Civ5>> >>
  ELSE << >>

\* ------------------------------------------------------------- files
NoFile == [kind |-> "none"]
PartialFile == [kind |-> "partial"]

\* list(visited_urls): the elements in the set's iteration order, a fixed
\* but unspecified function of the set.
RECURSIVE SetToList(_)
SetToList(S) ==
  IF S = {} THEN << >>
  ELSE LET x == CHOOSE y \in S : TRUE
       IN  <<x>> \o SetToList(S \ {x})

VARIABLES
  pc,               \* position of the process
  alive,            \* a process is running
  ret,              \* where save_state returns to
  visited_urls, saved_count, processed_count, queue,   \* module globals
  url,              \* crawl's local
  state_loaded,     \* crawl's local
  state_file,       \* STATE_FILE on disk
  temp_file,        \* STATE_FILE + '.tmp' on disk
  mapping,          \* lines of url_mapping.txt
  files,            \* names of the article files in OUTPUT_DIR
  log,              \* lines of crawl_log.txt
  limit,            \* the configured MAX_ARTICLES of this behaviour
  runs,             \* processes started so far
  events,           \* events of the environment so far
  faulted,          \* an I/O operation has failed
  interrupted,      \* this process received a KeyboardInterrupt
  killed,           \* a process has been killed
  intr_outside,     \* an interrupt arrived outside the while loop
  \* history
  proc_log,         \* URLs marked visited by this process, in order
  fetch_log,        \* URLs this process issued a GET for, in order
  resumed_visited,  \* the visited set this process loaded
  push_log,         \* URLs put into this process's queue, in order
  slept,            \* time.sleep(DELAY) has run since this process's last GET
  verdicts,         \* <<url, result>> of every call of the classifier
  prev_state_file,  \* STATE_FILE when the current save_state began
  saved_mem,        \* the globals that STATE_FILE is the serialization of
  dirty,            \* globals changed since save_state last took a snapshot
  last_save         \* outcome of this process's last save_state call

ctl == <<pc, alive, ret>>
mem == <<visited_urls, saved_count, processed_count, queue>>
locals == <<url, state_loaded>>
outfiles == <<state_file, temp_file, mapping, files>>
disk == <<outfiles, log>>
conf == <<limit, runs>>
env == <<events, faulted, interrupted, killed, intr_outside>>
runlogs == <<proc_log, fetch_log, resumed_visited, push_log, slept>>
logs == <<runlogs, verdicts>>
saves == <<prev_state_file, saved_mem, dirty, last_save>>
vars == <<ctl, mem, locals, disk, conf, env, logs, saves>>

NoUrl == << >>
NoMem == [kind |-> "none"]

InitWith(lim) ==
  /\ pc = "off" /\ alive = FALSE /\ ret = "none"
  /\ visited_urls = {} /\ saved_count = 0 /\ processed_count = 0
  /\ queue = << >>
  /\ url = NoUrl /\ state_loaded = FALSE
  /\ state_file = NoFile /\ temp_file = NoFile
  /\ mapping = << >> /\ files = {} /\ log = << >>
  /\ limit = lim /\ runs = 0
  /\ events = 0 /\ faulted = FALSE /\ interrupted = FALSE /\ killed = FALSE
  /\ intr_outside = FALSE
  /\ proc_log = << >> /\ fetch_log = << >> /\ resumed_visited = {}
  /\ push_log = << >> /\ slept = TRUE /\ verdicts = {}
  /\ prev_state_file = NoFile /\ saved_mem = NoMem
  /\ dirty = FALSE /\ last_save = "none"

Init == InitWith(MAX_ARTICLES)
InitNoLimit == InitWith(NoLimit)

\* An event of the environment, within the budget.
Event == events < MaxEvents /\ events' = events + 1
\* An I/O operation fails.
Fault ==
  Event /\ faulted' = TRUE /\ UNCHANGED <<interrupted, killed, intr_outside>>

\* ------------------------------------------------------------- start
\* A new process: the module-level initialisation of lines 24-31.
Start ==
  /\ ~alive /\ runs < MaxRuns
  /\ alive' = TRUE /\ pc' = "load" /\ ret' = "none"
  /\ visited_urls' = {} /\ saved_count' = 0 /\ processed_count' = 0
  /\ queue' = << >>
  /\ url' = NoUrl /\ state_loaded' = FALSE
  /\ runs' = runs + 1
  /\ interrupted' = FALSE
  /\ proc_log' = << >> /\ fetch_log' = << >> /\ resumed_visited' = {}
  /\ push_log' = << >> /\ slept' = TRUE
  /\ prev_state_file' = NoFile /\ dirty' = TRUE /\ last_save' = "none"
  /\ UNCHANGED <<disk, limit, events, faulted, killed, intr_outside, saved_mem,
                 verdicts>>

\* ------------------------------------------------------------- load_state
\* set(state['visited_urls'])
LoadedVisited(f) == Range(f.visited_urls)
\* deque(state['queue'])
LoadedQueue(f) == f.queue

\* lines 138-140
LoadMissing ==
  /\ alive /\ pc = "load" /\ state_file = NoFile
  /\ state_loaded' = FALSE /\ pc' = "init_queue"
  /\ UNCHANGED <<alive, ret, mem, url, disk, conf, env, logs, saves>>

\* lines 142-146: the file is unpickled and the first global assigned
LoadOk ==
  /\ alive /\ pc = "load" /\ state_file.kind = "pickle"
  /\ "visited_urls" \in DOMAIN state_file
  /\ visited_urls' = LoadedVisited(state_file)
  /\ resumed_visited' = LoadedVisited(state_file)
  /\ pc' = "load_saved"
  /\ UNCHANGED <<alive, ret, saved_count, processed_count, queue, locals,
                 disk, conf, env, proc_log, fetch_log, push_log, slept,
                 verdicts, saves>>

\* line 147
LoadSaved ==
  /\ alive /\ pc = "load_saved"
  /\ "saved_count" \in DOMAIN state_file
  /\ saved_count' = state_file.saved_count
  /\ pc' = "load_processed"
  /\ UNCHANGED <<alive, ret, visited_urls, processed_count, queue, locals,
                 disk, conf, env, logs, saves>>

\* line 148
LoadProcessed ==
  /\ alive /\ pc = "load_processed"
  /\ "processed_count" \in DOMAIN state_file
  /\ processed_count' = state_file.processed_count
  /\ pc' = "load_queue"
  /\ UNCHANGED <<alive, ret, visited_urls, saved_count, queue, locals,
                 disk, conf, env, logs, saves>>

\* lines 149-152, and the assignment of line 163
LoadQueue ==
  /\ alive /\ pc = "load_queue"
  /\ "queue" \in DOMAIN state_file
  /\ queue' = LoadedQueue(state_file)
  /\ push_log' = LoadedQueue(state_file)
  /\ state_loaded' = TRUE /\ pc' = "open_log"
  /\ UNCHANGED <<alive, ret, visited_urls, saved_count, processed_count,
                 url, disk, conf, env, proc_log, fetch_log, resumed_visited,
                 slept, verdicts, saves>>

\* lines 143-144 raise (open or pickle.load): nothing has been assigned yet;
\* lines 153-156
LoadFail ==
  /\ alive /\ pc = "load" /\ state_file # NoFile
  /\ Fault
  /\ state_loaded' = FALSE /\ pc' = "init_queue"
  /\ UNCHANGED <<alive, ret, mem, url, disk, conf, logs, saves>>

\* lines 146-149 raise KeyError: the unpickled dict lacks the key that the
\* statement reads; the globals assigned by the statements before it keep
\* their values; lines 153-156
LoadFieldMissing ==
  /\ alive /\ state_file.kind = "pickle"
  /\ \/ pc = "load" /\ "visited_urls" \notin DOMAIN state_file
     \/ pc = "load_saved" /\ "saved_count" \notin DOMAIN state_file
     \/ pc = "load_processed" /\ "processed_count" \notin DOMAIN state_file
     \/ pc = "load_queue" /\ "queue" \notin DOMAIN state_file
  /\ state_loaded' = FALSE /\ pc' = "init_queue"
  /\ UNCHANGED <<alive, ret, mem, url, disk, conf, env, logs, saves>>

load_state ==
  \/ LoadMissing \/ LoadOk \/ LoadSaved \/ LoadProcessed \/ LoadQueue
  \/ LoadFail

\* lines 169-174
FreshQueue ==
  LET q == <<START_URL>>
  IN  IF ~Contains(q, kasbah_url) THEN Append(q, kasbah_url) ELSE q

InitQueue ==
  /\ alive /\ pc = "init_queue"
  /\ queue' = FreshQueue
  /\ push_log' = FreshQueue
  /\ pc' = "open_log"
  /\ UNCHANGED <<alive, ret, visited_urls, saved_count, processed_count,
                 locals, disk, conf, env, proc_log, fetch_log,
                 resumed_visited, slept, verdicts, saves>>

\* A line of crawl_log.txt: what it reports, and the URL it names if any.
LogLine(k, u) == [kind |-> k, url |-> u]

\* lines 186-203: mode "w" truncates the file, mode "a" keeps it
OpenLog ==
  /\ alive /\ pc = "open_log"
  /\ log' = IF state_loaded
              THEN Append(log, LogLine("resumed", NoUrl))
              ELSE <<LogLine("started", START_URL)>>
  /\ pc' = "loop"
  /\ UNCHANGED <<alive, ret, mem, locals, outfiles, conf, env, logs, saves>>

\* ------------------------------------------------------------- the loop
\* LoopCond without the test of saved_count.
LoopCond_NoLimit == queue # << >>

\* line 205
LoopCond == queue # << >> /\ saved_count < limit

\* LoopTest that reads the head of the queue without removing it.
LoopTest_Peek ==
  /\ alive /\ pc = "loop"
  /\ IF LoopCond
       THEN /\ url' = Norm(Head(queue))
            /\ dirty' = TRUE
            /\ pc' = "popped"
            /\ UNCHANGED queue
       ELSE /\ pc' = "final"
            /\ UNCHANGED <<url, queue, dirty>>
  /\ UNCHANGED <<alive, ret, visited_urls, saved_count, processed_count,
                 state_loaded, disk, conf, env, logs, prev_state_file,
                 saved_mem, last_save>>

\* lines 205-211
LoopTest ==
  /\ alive /\ pc = "loop"
  /\ IF LoopCond
       THEN /\ url' = Norm(Head(queue))
            /\ queue' = Tail(queue)
            /\ dirty' = TRUE
            /\ pc' = "popped"
       ELSE /\ pc' = "final"
            /\ UNCHANGED <<url, queue, dirty>>
  /\ UNCHANGED <<alive, ret, visited_urls, saved_count, processed_count,
                 state_loaded, disk, conf, env, logs, prev_state_file,
                 saved_mem, last_save>>

\* AlreadyVisited that knows only the URLs whose article was saved.
AlreadyVisited_Saved(u) == \E i \in DOMAIN mapping : mapping[i].url = u

\* line 214
AlreadyVisited(u) == u \in visited_urls

\* CheckVisited with the counter of line 221 moved before the test of line
\* 214: a skipped pop is counted too.
CheckVisited_Counted ==
  /\ alive /\ pc = "popped"
  /\ IF AlreadyVisited(url)
       THEN /\ pc' = "loop"
            /\ processed_count' = processed_count + 1
            /\ UNCHANGED <<visited_urls, proc_log>>
       ELSE /\ visited_urls' = visited_urls \cup {url}
            /\ proc_log' = Append(proc_log, url)
            /\ pc' = "marked"
            /\ UNCHANGED processed_count
  /\ dirty' = TRUE
  /\ UNCHANGED <<alive, ret, saved_count, queue, locals,
                 disk, conf, env, fetch_log, resumed_visited, push_log,
                 slept, verdicts, prev_state_file, saved_mem, last_save>>

\* lines 213-220
CheckVisited ==
  /\ alive /\ pc = "popped"
  /\ IF AlreadyVisited(url)
       THEN /\ pc' = "loop"
            /\ UNCHANGED <<visited_urls, proc_log, dirty>>
       ELSE /\ visited_urls' = visited_urls \cup {url}
            /\ proc_log' = Append(proc_log, url)
            /\ dirty' = TRUE
            /\ pc' = "marked"
  /\ UNCHANGED <<alive, ret, saved_count, processed_count, queue, locals,
                 disk, conf, env, fetch_log, resumed_visited, push_log,
                 slept, verdicts, prev_state_file, saved_mem, last_save>>

\* line 221
CountProcessed ==
  /\ alive /\ pc = "marked"
  /\ processed_count' = processed_count + 1
  /\ dirty' = TRUE
  /\ pc' = "timer"
  /\ UNCHANGED <<alive, ret, visited_urls, saved_count, queue, locals, disk,
                 conf, env, logs, prev_state_file, saved_mem, last_save>>

\* The call of save_state: the snapshot of lines 111-116 is taken here.
CallSaveState(back) ==
  /\ pc' = "ss_dump" /\ ret' = back
  /\ prev_state_file' = state_file
  /\ dirty' = FALSE
  /\ last_save' = "running"

\* lines 229-232: the interval has elapsed
TimerFires ==
  /\ alive /\ pc = "timer"
  /\ Event /\ UNCHANGED <<faulted, interrupted, killed, intr_outside>>
  /\ CallSaveState("classify")
  /\ UNCHANGED <<alive, mem, locals, disk, conf, logs, saved_mem>>

\* lines 229-230: the interval has not elapsed
TimerQuiet ==
  /\ alive /\ pc = "timer"
  /\ pc' = "classify"
  /\ UNCHANGED <<alive, ret, mem, locals, disk, conf, env, logs, saves>>

\* Classify without the continue of line 240: the verdict is computed and
\* the URL is fetched whatever it is.
Classify_Ignore ==
  /\ alive /\ pc = "classify"
  /\ pc' = "fetch"
  /\ verdicts' = verdicts \cup {<<url, is_valid_civ5_article(url)>>}
  /\ UNCHANGED <<alive, ret, mem, locals, disk, conf, env, runlogs, saves>>

\* Classify with a classifier that consults the crawl state: until an
\* article has been saved it accepts nothing but the seed.
Classify_Stateful ==
  /\ alive /\ pc = "classify"
  /\ LET r == is_valid_civ5_article(url)
                 /\ (saved_count > 0 \/ url = START_URL)
     IN  /\ pc' = IF r THEN "fetch" ELSE "loop"
         /\ verdicts' = verdicts \cup {<<url, r>>}
  /\ UNCHANGED <<alive, ret, mem, locals, disk, conf, env, runlogs, saves>>

\* lines 239-240
Classify ==
  /\ alive /\ pc = "classify"
  /\ pc' = IF is_valid_civ5_article(url) THEN "fetch" ELSE "loop"
  /\ verdicts' = verdicts \cup {<<url, is_valid_civ5_article(url)>>}
  /\ UNCHANGED <<alive, ret, mem, locals, disk, conf, env, runlogs, saves>>

\* lines 242-246
FetchOk ==
  /\ alive /\ pc = "fetch"
  /\ fetch_log' = Append(fetch_log, url)
  /\ slept' = FALSE
  /\ pc' = "store_html"
  /\ UNCHANGED <<alive, ret, mem, locals, disk, conf, env, proc_log,
                 resumed_visited, push_log, verdicts, saves>>

\* FetchFail with no except clause in crawl(): the exception reaches the
\* handler of lines 335-338, which saves the state and ends the process.
FetchFail_Fatal ==
  /\ alive /\ pc = "fetch"
  /\ Fault
  /\ fetch_log' = Append(fetch_log, url)
  /\ slept' = FALSE
  /\ CallSaveState("main_end")
  /\ UNCHANGED <<alive, mem, locals, disk, conf, proc_log, resumed_visited,
                 push_log, verdicts, saved_mem>>

\* lines 242-243 raise, lines 289-292 log the error
FetchFail ==
  /\ alive /\ pc = "fetch"
  /\ Fault
  /\ fetch_log' = Append(fetch_log, url)
  /\ slept' = FALSE
  /\ log' = Append(log, LogLine("Error", url))
  /\ pc' = "loop"
  /\ UNCHANGED <<alive, ret, mem, locals, outfiles, conf, proc_log,
                 resumed_visited, push_log, verdicts, saves>>

\* ------------------------------------------------------------- save_article
\* lines 91-93
WriteHtml ==
  /\ alive /\ pc = "store_html"
  /\ files' = files \cup {Filename(url)}
  /\ pc' = "store_map"
  /\ UNCHANGED <<alive, ret, mem, locals, state_file, temp_file, mapping,
                 log, conf, env, logs, saves>>

\* line 97
MappingLine(u) == [filename |-> Filename(u), url |-> u]

\* lines 95-97
WriteMapping ==
  /\ alive /\ pc = "store_map"
  /\ mapping' = Append(mapping, MappingLine(url))
  /\ pc' = "store_inc"
  /\ UNCHANGED <<alive, ret, mem, locals, state_file, temp_file, files,
                 log, conf, env, logs, saves>>

\* WriteFail of a save_article that counts the article before writing it.
WriteFail_Counted ==
  /\ alive /\ pc \in {"store_html", "store_map"}
  /\ Fault
  /\ saved_count' = saved_count + 1
  /\ log' = Append(log, LogLine("Error", url))
  /\ pc' = "loop"
  /\ UNCHANGED <<alive, ret, visited_urls, processed_count, queue, locals,
                 outfiles, conf, logs, saves>>

\* open() raises at line 92 or line 96; lines 293-296 log the error
WriteFail ==
  /\ alive /\ pc \in {"store_html", "store_map"}
  /\ Fault
  /\ log' = Append(log, LogLine("Error", url))
  /\ pc' = "loop"
  /\ UNCHANGED <<alive, ret, mem, locals, outfiles, conf, logs, saves>>

\* line 99
IncSaved ==
  /\ alive /\ pc = "store_inc"
  /\ saved_count' = saved_count + 1
  /\ dirty' = TRUE
  /\ pc' = "log_saved"
  /\ UNCHANGED <<alive, ret, visited_urls, processed_count, queue, locals,
                 disk, conf, env, logs, prev_state_file, saved_mem,
                 last_save>>

\* lines 250-252
LogSaved ==
  /\ alive /\ pc = "log_saved"
  /\ log' = Append(log, LogLine("Saved", url))
  /\ pc' = "limit"
  /\ UNCHANGED <<alive, ret, mem, locals, outfiles, conf, env, logs, saves>>

\* LimitTest without the break of line 256.
LimitTest_NoBreak ==
  /\ alive /\ pc = "limit"
  /\ pc' = "links"
  /\ UNCHANGED <<alive, ret, mem, locals, disk, conf, env, logs, saves>>

\* lines 254-256
LimitTest ==
  /\ alive /\ pc = "limit"
  /\ pc' = IF saved_count >= limit THEN "final" ELSE "links"
  /\ UNCHANGED <<alive, ret, mem, locals, disk, conf, env, logs, saves>>

\* ------------------------------------------------------------- links
\* line 266
SkipHref(h) == h = << >> \/ Head(h) = "#" \/ Head(h) = "javascript:"

\* line 280
Pushable(a, visited) == Contains(a, Dom) /\ a \notin visited

\* lines 262-284: what the loop over the links appends to the queue
Pushed(u, visited) ==
  LET kept == SelectSeq(Hrefs(u), LAMBDA h : ~SkipHref(h))
      abs == [i \in 1..Len(kept) |-> urljoin(u, kept[i])]
  IN  SelectSeq(abs, LAMBDA a : Pushable(a, visited))

PushLinks ==
  /\ alive /\ pc = "links"
  /\ queue' = queue \o Pushed(url, visited_urls)
  /\ push_log' = push_log \o Pushed(url, visited_urls)
  /\ dirty' = TRUE
  /\ pc' = "sleep"
  /\ UNCHANGED <<alive, ret, visited_urls, saved_count, processed_count,
                 locals, disk, conf, env, proc_log, fetch_log,
                 resumed_visited, slept, verdicts, prev_state_file,
                 saved_mem, last_save>>

\* line 287
Sleep ==
  /\ alive /\ pc = "sleep"
  /\ slept' = TRUE
  /\ pc' = "loop"
  /\ UNCHANGED <<alive, ret, mem, locals, disk, conf, env, proc_log,
                 fetch_log, resumed_visited, push_log, verdicts, saves>>

\* line 299
FinalSave ==
  /\ alive /\ pc = "final"
  /\ CallSaveState("finish")
  /\ UNCHANGED <<alive, mem, locals, disk, conf, env, logs, saved_mem>>

\* ------------------------------------------------------------- save_state
CurrentMem ==
  [visited |-> visited_urls, queue |-> queue,
   processed_count |-> processed_count, saved_count |-> saved_count]

\* Pickled with the two counters stored under each other's key.
Pickled_Swapped ==
  [kind |-> "pickle",
   visited_urls |-> SetToList(visited_urls),
   saved_count |-> processed_count,
   processed_count |-> saved_count,
   queue |-> queue]

\* lines 111-116, pickled
Pickled ==
  [kind |-> "pickle",
   visited_urls |-> SetToList(visited_urls),
   saved_count |-> saved_count,
   processed_count |-> processed_count,
   queue |-> queue]

\* lines 122-123
DumpOk ==
  /\ alive /\ pc = "ss_dump"
  /\ temp_file' = Pickled
  /\ pc' = "ss_remove"
  /\ UNCHANGED <<alive, ret, mem, locals, state_file, mapping, files, log,
                 conf, env, logs, saves>>

\* lines 122-123 raise
DumpFail ==
  /\ alive /\ pc = "ss_dump"
  /\ Fault
  /\ temp_file' = PartialFile
  /\ last_save' = "failed"
  /\ pc' = "ss_except"
  /\ UNCHANGED <<alive, ret, mem, locals, state_file, mapping, files, log,
                 conf, logs, prev_state_file, saved_mem, dirty>>

\* lines 126-127
RemoveOld ==
  /\ alive /\ pc = "ss_remove"
  /\ state_file' = NoFile
  /\ saved_mem' = NoMem
  /\ pc' = "ss_rename"
  /\ UNCHANGED <<alive, ret, mem, locals, temp_file, mapping, files, log,
                 conf, env, logs, prev_state_file, dirty, last_save>>

\* line 127 raises
RemoveFail ==
  /\ alive /\ pc = "ss_remove" /\ state_file # NoFile
  /\ Fault
  /\ last_save' = "failed"
  /\ pc' = "ss_except"
  /\ UNCHANGED <<alive, ret, mem, locals, disk, conf, logs, prev_state_file,
                 saved_mem, dirty>>

\* lines 128-130
RenameOk ==
  /\ alive /\ pc = "ss_rename"
  /\ state_file' = temp_file /\ temp_file' = NoFile
  /\ saved_mem' = CurrentMem
  /\ last_save' = "ok"
  /\ prev_state_file' = NoFile
  /\ pc' = ret /\ ret' = "none"
  /\ UNCHANGED <<alive, mem, locals, mapping, files, log, conf, env, logs,
                 dirty>>

\* line 128 raises
RenameFail ==
  /\ alive /\ pc = "ss_rename"
  /\ Fault
  /\ last_save' = "failed"
  /\ pc' = "ss_except"
  /\ UNCHANGED <<alive, ret, mem, locals, disk, conf, logs, prev_state_file,
                 saved_mem, dirty>>

\* lines 131-132
SaveExcept ==
  /\ alive /\ pc = "ss_except"
  /\ last_save' = "logged"
  /\ prev_state_file' = NoFile
  /\ pc' = ret /\ ret' = "none"
  /\ UNCHANGED <<alive, mem, locals, disk, conf, env, logs, saved_mem,
                 dirty>>

save_state ==
  \/ DumpOk \/ DumpFail \/ RemoveOld \/ RemoveFail \/ RenameOk \/ RenameFail
  \/ SaveExcept

\* ------------------------------------------------------------- exit
\* lines 301-310
Finish ==
  /\ alive /\ pc = "finish"
  /\ log' = Append(log, LogLine("completed", NoUrl))
  /\ pc' = "main_end"
  /\ UNCHANGED <<alive, ret, mem, locals, outfiles, conf, env, logs, saves>>

\* lines 340-341, then the process exits
MainEnd ==
  /\ alive /\ pc = "main_end"
  /\ pc' = "terminated" /\ alive' = FALSE
  /\ UNCHANGED <<ret, mem, locals, disk, conf, env, logs, saves>>

\* The KeyboardInterrupt handler of __main__ is running or has run.
InHandler == ret = "main_end" \/ pc = "main_end"

\* The process is inside the while loop of lines 205-296.
LoopPcs == {"loop", "popped", "marked", "timer", "classify", "fetch",
            "store_html", "store_map", "store_inc", "log_saved", "limit",
            "links", "sleep"}
InLoop == pc \in LoopPcs \/ ret = "classify"

\* Interrupt with a handler that does not call save_state.
Interrupt_NoSave ==
  /\ alive /\ ~InHandler
  /\ Event /\ interrupted' = TRUE /\ UNCHANGED <<faulted, killed>>
  /\ intr_outside' = (intr_outside \/ ~InLoop)
  /\ pc' = "main_end" /\ ret' = "none"
  /\ UNCHANGED <<alive, mem, locals, disk, conf, logs, saves>>

\* KeyboardInterrupt inside crawl(): lines 331-334
Interrupt ==
  /\ alive /\ ~InHandler
  /\ Event /\ interrupted' = TRUE /\ UNCHANGED <<faulted, killed>>
  /\ intr_outside' = (intr_outside \/ ~InLoop)
  /\ CallSaveState("main_end")
  /\ UNCHANGED <<alive, mem, locals, disk, conf, logs, saved_mem>>

\* The process is killed: its memory is gone, the files stay.
Kill ==
  /\ alive
  /\ Event /\ killed' = TRUE
  /\ UNCHANGED <<faulted, interrupted, intr_outside>>
  /\ alive' = FALSE
  /\ visited_urls' = {} /\ saved_count' = 0 /\ processed_count' = 0
  /\ queue' = << >>
  /\ url' = NoUrl /\ state_loaded' = FALSE
  /\ proc_log' = << >> /\ fetch_log' = << >> /\ resumed_visited' = {}
  /\ push_log' = << >> /\ slept' = TRUE
  /\ UNCHANGED <<pc, ret, disk, conf, saves, verdicts>>

crawl ==
  \/ load_state \/ InitQueue \/ OpenLog
  \/ LoopTest \/ CheckVisited \/ CountProcessed
  \/ TimerFires \/ TimerQuiet
  \/ Classify \/ FetchOk \/ FetchFail
  \/ WriteHtml \/ WriteMapping \/ WriteFail \/ IncSaved \/ LogSaved
  \/ LimitTest \/ PushLinks \/ Sleep \/ FinalSave \/ Finish

Next == Start \/ crawl \/ save_state \/ MainEnd \/ Interrupt \/ Kill

Spec == Init /\ [][Next]_vars
SpecNoLimit == InitNoLimit /\ [][Next]_vars

\* ------------------------------------------------------------- fair runs
\* Processes that are neither interrupted nor killed, with either limit;
\* GETs and file operations can fail and the checkpoint timer can fire. A
\* sequential process always takes its next step: requests.get has a
\* timeout (line 242) and time.sleep(DELAY) returns.
InitEither == \E lim \in {MAX_ARTICLES, NoLimit} : InitWith(lim)
NextRun == Start \/ crawl \/ save_state \/ MainEnd
SpecFair == InitEither /\ [][NextRun]_vars /\ WF_vars(NextRun)

\* ------------------------------------------------------------- old checkpoints
\* The output directory holds crawler_state.pkl files that are well-formed
\* pickles of a dict lacking one of the four keys that load_state reads,
\* next to the article the dict counts.
OldCheckpoints ==
  {[kind |-> "pickle", saved_count |-> 1, processed_count |-> 1,
    queue |-> <<ArticleA>>],
   [kind |-> "pickle", visited_urls |-> <<START_URL>>, processed_count |-> 1,
    queue |-> <<ArticleA>>],
   [kind |-> "pickle", visited_urls |-> <<START_URL>>, saved_count |-> 1,
    queue |-> <<ArticleA>>],
   [kind |-> "pickle", visited_urls |-> <<START_URL>>, saved_count |-> 1,
    processed_count |-> 1]}

InitOld ==
  /\ pc = "off" /\ alive = FALSE /\ ret = "none"
  /\ visited_urls = {} /\ saved_count = 0 /\ processed_count = 0
  /\ queue = << >>
  /\ url = NoUrl /\ state_loaded = FALSE
  /\ state_file \in OldCheckpoints /\ temp_file = NoFile
  /\ mapping = <<MappingLine(START_URL)>> /\ files = {Filename(START_URL)}
  /\ log = <<LogLine("started", START_URL), LogLine("Saved", START_URL)>>
  /\ limit = MAX_ARTICLES /\ runs = 0
  /\ events = 0 /\ faulted = FALSE /\ interrupted = FALSE /\ killed = FALSE
  /\ intr_outside = FALSE
  /\ proc_log = << >> /\ fetch_log = << >> /\ resumed_visited = {}
  /\ push_log = << >> /\ slept = TRUE /\ verdicts = {}
  /\ prev_state_file = NoFile /\ saved_mem = NoMem
  /\ dirty = FALSE /\ last_save = "none"

NextOld == Next \/ LoadFieldMissing
SpecOld == InitOld /\ [][NextOld]_vars

\* ------------------------------------------------------------- classifier
\* URLs for the classifier taken alone: both hosts, with and without a
\* language segment, a namespace, the article suffix, a Civilopedia
\* sub-page, a query or a fragment, and with the name of the site's domain
\* in the path or in the query.
OtherHost == "mirror.example"
ClassifyInputs ==
  {START_URL} \cup
  {<<"https://", h>> \o pre \o <<"/wiki/">> \o ns \o <<"Archer">>
       \o ending \o tail :
     h \in {Dom, OtherHost},
     pre \in {<< >>, <<"/de/">>, <<"/mirror/", Dom>>},
     ns \in {<< >>} \cup {<<x>> : x \in Namespaces},
     ending \in {<< >>, <<Civ5>>, <<Civ5, "/Civilopedia">>,
                 <<"/Civilopedia", Civ5>>},
     tail \in {<< >>, <<"?", "action=history">>, <<"#", "Strategy">>,
               <<"?", "from=", Dom>>}}

\* The process is at line 239 with any of the URLs as the popped URL.
InitClassify ==
  /\ pc = "classify" /\ alive = TRUE /\ ret = "none"
  /\ url \in ClassifyInputs
  /\ visited_urls = {url} /\ saved_count = 0 /\ processed_count = 1
  /\ queue = << >> /\ state_loaded = FALSE
  /\ state_file = NoFile /\ temp_file = NoFile
  /\ mapping = << >> /\ files = {}
  /\ log = <<LogLine("started", START_URL)>>
  /\ limit = MAX_ARTICLES /\ runs = 1
  /\ events = 0 /\ faulted = FALSE /\ interrupted = FALSE /\ killed = FALSE
  /\ intr_outside = FALSE
  /\ proc_log = <<url>> /\ fetch_log = << >> /\ resumed_visited = {}
  /\ push_log = <<url>> /\ slept = TRUE /\ verdicts = {}
  /\ prev_state_file = NoFile /\ saved_mem = NoMem
  /\ dirty = TRUE /\ last_save = "none"

SpecClassify == InitClassify /\ [][Classify]_vars

\* ------------------------------------------------------------- reference
\* The while loop of lines 205-287 run to its end with no failure, no
\* interrupt and no kill: the URLs it saves, in order.
RECURSIVE RunLoop(_, _, _, _)
RunLoop(q, visited, saved, lim) ==
  IF q = << >> \/ Len(saved) >= lim THEN saved
  ELSE LET u == Norm(Head(q))
           rest == Tail(q)
           visited2 == visited \cup {u}
       IN  IF u \in visited THEN RunLoop(rest, visited, saved, lim)
           ELSE IF ~is_valid_civ5_article(u)
             THEN RunLoop(rest, visited2, saved, lim)
           ELSE IF Len(saved) + 1 >= lim THEN Append(saved, u)
           ELSE RunLoop(rest \o Pushed(u, visited2), visited2,
                        Append(saved, u), lim)

\* What one uninterrupted run from an empty output directory saves.
UninterruptedSaved == RunLoop(FreshQueue, {}, << >>, limit)

\* ------------------------------------------------------------- claims
\* The key of a URL as the specification defines it: the URL up to its first
\* fragment or query marker.
StripKey(u) ==
  IF \A i \in DOMAIN u : u[i] # "#" /\ u[i] # "?" THEN u
  ELSE LET I == {i \in DOMAIN u : u[i] \in {"#", "?"}}
       IN  SubSeq(u, 1, Min(I) - 1)

NoRepeat(s) ==
  LET key == [i \in DOMAIN s |-> StripKey(s[i])]
  IN  \A i, j \in DOMAIN s : key[i] = key[j] => i = j

SavedUrls == {mapping[i].url : i \in DOMAIN mapping}

(* C1: bounded acceptance. In every reachable state saved_count is at most
   the configured maximum, and so is the saved_count of every checkpoint
   file the crawler has written. *)
BoundedAcceptance ==
  /\ saved_count <= limit
  /\ state_file.kind = "pickle" => state_file.saved_count <= limit
  /\ temp_file.kind = "pickle" => temp_file.saved_count <= limit

\* A resumed process has just saved the article that reaches the limit.
BoundedAcceptance_Witness ==
  alive /\ state_loaded /\ pc = "log_saved" /\ saved_count = limit

(* C2: no re-visit. A process marks, classifies and fetches a URL (compared
   by its key) at most once, and never a URL whose key is in the visited set
   it loaded from the checkpoint; while a URL is being classified, fetched
   or saved it is the URL marked last. *)
NoRevisit ==
  /\ NoRepeat(proc_log)
  /\ NoRepeat(fetch_log)
  /\ LET loaded == {StripKey(v) : v \in resumed_visited}
     IN  \A i \in DOMAIN proc_log : StripKey(proc_log[i]) \notin loaded
  /\ \A i \in DOMAIN fetch_log : Contains(proc_log, fetch_log[i])
  /\ (alive /\ pc \in {"marked", "timer", "classify", "fetch", "store_html",
                       "store_map", "store_inc", "log_saved", "limit",
                       "links", "sleep"})
       => (proc_log # << >> /\ url = proc_log[Len(proc_log)])

\* A resumed process has popped a URL of the loaded visited set and skipped
\* it.
NoRevisit_Witness ==
  /\ alive /\ state_loaded /\ pc = "loop"
  /\ url # NoUrl /\ url \in resumed_visited

(* C3: atomicity under crash. When the process has been killed inside
   save_state after the temp file was written and before the rename
   completed, and a checkpoint file existed when that save began, the
   checkpoint file is still the one that existed. *)
AtomicUnderCrash ==
  (~alive /\ pc \in {"ss_remove", "ss_rename"} /\ prev_state_file # NoFile)
    => state_file = prev_state_file

(* C4: resume without duplication. When a process that resumed from a
   checkpoint has run to completion without being interrupted, and no I/O
   operation has failed, url_mapping.txt holds no filename/URL pair twice
   (one uninterrupted run from an empty directory writes each pair at most
   once). *)
ResumeWithoutDuplication ==
  (pc = "terminated" /\ state_loaded /\ ~interrupted /\ ~faulted)
    => \A i, j \in DOMAIN mapping : mapping[i] = mapping[j] => i = j

(* C5: no lost progress across restart. With no I/O failure, no kill and the
   limit out of reach, when every interrupt arrived inside the loop and its
   shutdown checkpoint was written, a process that then runs to completion
   leaves exactly the article URLs saved that one uninterrupted crawl
   saves. *)
NoLostProgress ==
  (pc = "terminated" /\ ~interrupted /\ ~killed /\ ~faulted /\ ~intr_outside
     /\ last_save = "ok")
    => SavedUrls = Range(UninterruptedSaved)

(* C6: checkpoint round-trip. What load_state restores from the checkpoint
   file is the state that the save which wrote the file serialized: the same
   visited set, the same queue in the same order, the same counters. *)
RoundTrip ==
  (alive /\ pc = "open_log" /\ state_loaded) => CurrentMem = saved_mem

\* A state with a queue of several URLs, several visited URLs and two
\* different counters has been saved and loaded.
RoundTrip_Witness ==
  /\ alive /\ pc = "open_log" /\ state_loaded
  /\ Len(queue) >= 2 /\ Cardinality(visited_urls) >= 2
  /\ saved_count >= 1 /\ processed_count > saved_count

(* C7: final checkpoint on every exit path. A process that has terminated
   (queue empty, limit reached or interrupt) called save_state after its last
   change of the crawl state; that save either completed, and then the
   checkpoint file holds the final state, or failed, and then the failure
   was reported before the process terminated. *)
FinalCheckpoint ==
  pc = "terminated" =>
    /\ ~dirty
    /\ last_save \in {"ok", "logged"}
    /\ last_save = "ok" => (saved_mem = CurrentMem /\ state_file = Pickled)

\* A process that had saved an article was interrupted and has terminated
\* after the save of its handler failed.
FinalCheckpoint_Witness ==
  /\ pc = "terminated" /\ interrupted /\ last_save = "logged"
  /\ saved_count >= 1

(* C8: a failed checkpoint save preserves the old checkpoint. When
   save_state has failed at any step and a checkpoint file existed when it
   began, the checkpoint file is still that file. *)
FailurePreservesOld ==
  (pc = "ss_except" /\ prev_state_file # NoFile)
    => state_file = prev_state_file

(* C9: push-time visited check on the key. Every URL that the loop over the
   links appends to the queue has a key that is not in visited. *)
PushChecksKey ==
  [][(pc = "links" /\ pc' = "sleep") =>
       \A i \in (Len(queue) + 1)..Len(queue') :
         StripKey(queue'[i]) \notin visited_urls]_vars

(* C10: fresh start state. When there is no checkpoint file at startup, the
   loop starts with visited empty, both counters 0 and the queue holding
   exactly the seed URL. *)
FreshStart ==
  (alive /\ pc = "open_log" /\ ~state_loaded /\ state_file = NoFile)
    => /\ visited_urls = {}
       /\ processed_count = 0 /\ saved_count = 0
       /\ queue = <<START_URL>>

\* Positions at which a process is neither popping, fetching, saving nor
\* extracting links: the two steps that follow the increment of saved_count
\* (the "Saved:" log line and the test of the limit), the loop test, and
\* everything from the end of the loop on.
StoppedPcs == {"load_processed", "load_queue", "open_log", "loop", "log_saved", "limit", "final", "ss_dump",
               "ss_remove", "ss_rename", "ss_except", "finish", "main_end"}

(* C11: stop at the limit. While a process holds saved_count >= the limit it
   is at no position of the loop body that pops, marks, classifies, fetches,
   writes an article or pushes links: after the save that reached the limit
   (the last GET of the process, for the URL of the last mapping line) it
   only logs, tests the limit and leaves the loop, and a process that
   resumed with the limit reached has issued no GET. *)
StopAtLimit ==
  (alive /\ saved_count >= limit)
    => /\ pc \in StoppedPcs
       /\ ret \in {"none", "finish", "main_end"}
       /\ fetch_log # << >>
            => /\ mapping # << >>
               /\ fetch_log[Len(fetch_log)] = mapping[Len(mapping)].url
               /\ url = fetch_log[Len(fetch_log)]
       /\ (state_loaded /\ proc_log = << >>) => fetch_log = << >>

\* A resumed process has left the loop at the limit with URLs still queued
\* and without a GET.
StopAtLimit_Witness ==
  /\ alive /\ state_loaded /\ pc = "finish" /\ saved_count = limit
  /\ queue # << >> /\ fetch_log = << >> /\ proc_log = << >>

\* The pages of the site and the pages each one links to (anchors that the
\* link loop skips are not links to a page).
Pages == {START_URL, kasbah_url, ArticleA}
LinkTargets(u) ==
  {StripKey(urljoin(u, h)) :
     h \in Range(SelectSeq(Hrefs(u), LAMBDA x : ~SkipHref(x)))}

\* The URLs at link distance at most k from the seed.
RECURSIVE Within(_)
Within(k) ==
  IF k = 0 THEN {START_URL}
  ELSE Within(k - 1) \cup UNION {LinkTargets(u) : u \in Within(k - 1)}

\* The link distance of u from the seed; more than any distance on the site
\* if no chain of links leads to u.
Dist(u) ==
  LET K == {k \in 0..Cardinality(Pages) : u \in Within(k)}
  IN  IF K = {} THEN Cardinality(Pages) + 1 ELSE Min(K)

\* The position in push_log at which the key u was first put into the queue.
FirstPush(u) == Min({k \in DOMAIN push_log : StripKey(push_log[k]) = u})

\* The queue is what was pushed, minus a prefix: pops take the oldest entry.
PoppedInPushOrder ==
  /\ Len(queue) <= Len(push_log)
  /\ queue = SubSeq(push_log, Len(push_log) - Len(queue) + 1, Len(push_log))

\* URLs are processed in the order in which they were first pushed.
ProcessedInPushOrder ==
  \A i, j \in DOMAIN proc_log :
    i < j => FirstPush(proc_log[i]) < FirstPush(proc_log[j])

(* C12: strict FIFO frontier. URLs are popped in exactly the order in which
   they were pushed, the seed first; of two URLs first pushed at different
   times the earlier-pushed one is processed first; and in a run that starts
   from the seed and meets no failure, interrupt or kill, URLs are first
   processed in non-decreasing link distance from the seed. *)
StrictFIFO ==
  /\ PoppedInPushOrder
  /\ ProcessedInPushOrder
  /\ (~state_loaded /\ proc_log # << >>) => proc_log[1] = START_URL
  /\ (~state_loaded /\ events = 0)
       => \A i, j \in DOMAIN proc_log :
            i < j => Dist(proc_log[i]) <= Dist(proc_log[j])

(* C13: single fetch attempt per URL. The GETs one process has issued are
   for pairwise different keys, and a process that is about to issue a GET
   has issued none for that key before, whether the earlier attempt
   succeeded or failed and however often the key is in the queue. *)
SingleFetch ==
  LET key == [i \in DOMAIN fetch_log |-> StripKey(fetch_log[i])]
  IN  /\ \A i, j \in DOMAIN fetch_log : key[i] = key[j] => i = j
      /\ (alive /\ pc = "fetch")
           => \A i \in DOMAIN fetch_log : key[i] # StripKey(url)

\* A second queue entry for a URL whose GET failed has been popped and
\* skipped.
SingleFetch_Witness ==
  /\ alive /\ pc = "loop" /\ faulted
  /\ Contains(fetch_log, url) /\ url \notin SavedUrls
  /\ proc_log[Len(proc_log)] # url

\* A step of the running process that uses up an event and is neither its
\* kill nor its interrupt: at a position that performs I/O, the failure of
\* that operation.
FailureStep ==
  /\ alive /\ alive' /\ events' = events + 1 /\ faulted'
  /\ interrupted' = interrupted

(* C14: a fetch failure is not fatal. The step in which the GET fails
   appends an "Error:" line for the URL to crawl_log.txt, leaves the URL in
   visited_urls, leaves saved_count and the queue as they were, and puts
   the process back at the loop test, from where the next entry is popped. *)
FetchFailureNotFatal ==
  [][(pc = "fetch" /\ FailureStep)
       => /\ pc' = "loop"
          /\ log' = Append(log, LogLine("Error", url))
          /\ url \in visited_urls /\ visited_urls' = visited_urls
          /\ saved_count' = saved_count /\ queue' = queue
          /\ processed_count' = processed_count]_vars

\* After a failed GET was logged the loop has popped another URL and is
\* about to fetch it.
FetchFailureNotFatal_Witness ==
  /\ alive /\ pc = "fetch" /\ log # << >>
  /\ log[Len(log)].kind = "Error" /\ log[Len(log)].url # url
  /\ Contains(fetch_log, log[Len(log)].url)
  /\ log[Len(log)].url \in visited_urls

(* C15: saved_count counts only complete saves. A step of a process other
   than the restore of line 147 changes saved_count only by adding one, at the end of save_article, when the
   article file of the current URL exists and the last line of the mapping
   file is the line of that URL; the step in which the write of the article
   file or the append to the mapping file fails leaves saved_count as it
   was, appends an "Error:" line for the URL to crawl_log.txt and puts the
   process back at the loop test. *)
CountsCompleteSaves ==
  [][/\ (alive /\ alive' /\ pc # "load_saved" /\ saved_count' # saved_count)
          => /\ saved_count' = saved_count + 1
             /\ Filename(url) \in files
             /\ mapping # << >>
             /\ mapping[Len(mapping)] = MappingLine(url)
             /\ UNCHANGED <<files, mapping>>
     /\ (pc \in {"store_html", "store_map"} /\ FailureStep)
          => /\ saved_count' = saved_count
             /\ log' = Append(log, LogLine("Error", url))
             /\ pc' = "loop"]_vars

\* The first process has written the article file of the seed, the append
\* to the mapping file failed, and saved_count is still 0.
CountsCompleteSaves_Witness ==
  /\ alive /\ pc = "loop" /\ ~state_loaded /\ ~killed
  /\ Filename(url) \in files /\ url \notin SavedUrls
  /\ log[Len(log)] = LogLine("Error", url)
  /\ saved_count = 0

\* The path of a URL as the specification reads it: what follows the host,
\* up to the query or the fragment.
RulePath(u) == LET k == StripKey(u) IN SubSeq(k, 3, Len(k))

\* The reference ruleset: the seed, or all five further rules.
ClassifyRules(u) ==
  \/ u = START_URL
  \/ /\ Len(u) >= 2 /\ u[2] = Dom
     /\ \A l \in LangSegs : ~Contains(RulePath(u), l)
     /\ \A x \in Namespaces : ~Contains(RulePath(u), x)
     /\ RulePath(u) # << >> /\ RulePath(u)[Len(RulePath(u))] = Civ5
     /\ ~Contains(RulePath(u), "/Civilopedia")

(* C16: classifier ruleset. Once the classifier has been applied to the
   popped URL, the process goes on to fetch it if and only if the URL is the
   seed, or its host is the site's domain, its path has no excluded language
   segment and no Category/Talk/Category-talk namespace, ends with the
   article suffix and is not a Civilopedia sub-page. *)
ClassifierRuleset ==
  (alive /\ pc \in {"fetch", "loop"} /\ verdicts # {})
    => \A v \in verdicts : v[2] = ClassifyRules(v[1])

(* C17: classifier purity. Over all the calls of the classifier in a
   behaviour, by any process and in any crawl state, no URL has received
   two different results; and the step that calls the classifier leaves
   visited_urls, the queue and the two counters as they were. *)
ClassifierPurity ==
  [][(alive /\ pc = "classify" /\ alive' /\ pc' \in {"fetch", "loop"})
       => /\ \A v, w \in verdicts' : v[1] = w[1] => v[2] = w[2]
          /\ UNCHANGED mem]_vars

\* A resumed process has classified, with saved_count and the queue
\* different from then, a URL that an earlier process classified and saved.
ClassifierPurity_Witness ==
  /\ alive /\ state_loaded /\ killed /\ pc = "fetch"
  /\ <<url, TRUE>> \in verdicts /\ url \in SavedUrls
  /\ saved_count < Len(mapping)

\* Positions inside load_state, between its assignments to the globals.
MidLoadPcs == {"load_saved", "load_processed", "load_queue"}

(* C18: processed_count >= saved_count in every reachable state: in the
   globals of the process at every position outside the assignments of
   load_state (so also once they have been restored from a checkpoint), and
   in every checkpoint file the crawler has written. *)
ProcessedAtLeastSaved ==
  /\ pc \notin MidLoadPcs => processed_count >= saved_count
  /\ state_file.kind = "pickle"
       => state_file.processed_count >= state_file.saved_count
  /\ temp_file.kind = "pickle"
       => temp_file.processed_count >= temp_file.saved_count

(* C19: only in-scope links are enqueued. Every URL in the queue of a
   process is one the classifier accepts: the seed, or a URL that passes
   the reference ruleset. *)
OnlyInScopeEnqueued ==
  alive => \A i \in DOMAIN queue : ClassifyRules(StripKey(queue[i]))

(* C20: politeness delay between requests. A process that has issued a GET
   and is about to issue the next one has run the politeness delay since
   the earlier GET, whether that GET succeeded, failed, or its save
   failed. *)
PolitenessDelay ==
  (alive /\ pc = "fetch" /\ fetch_log # << >>) => slept

\* The processing of u is over for this process: u came with the loaded
\* checkpoint, or the classifier rejected it, or a GET for it has returned
\* or failed.
Finished(u) ==
  \/ u \in resumed_visited
  \/ <<u, FALSE>> \in verdicts
  \/ Contains(fetch_log, u)

(* C21: checkpointed visited URLs are finished URLs. In the checkpoint a
   process that was not interrupted has just written to the temp file (the
   periodic one or the one at the end of the loop), every URL of the visited
   set has been rejected by the classifier, fetched, or has failed to
   fetch. *)
CheckpointedAreFinished ==
  (alive /\ ~interrupted /\ pc = "ss_remove" /\ temp_file.kind = "pickle")
    => \A u \in Range(temp_file.visited_urls) : Finished(u)

\* The number of entries this process has popped from its queue: the queue
\* is what was pushed minus the popped prefix (PoppedInPushOrder).
Pops == Len(push_log) - Len(queue)

(* C22: processed_count equals the number of URLs popped. Whenever a
   process that started fresh and has met no failure, timer or interrupt is
   at the loop test, processed_count is the number of entries it has popped
   so far, skipped ones included. *)
CountsEveryPop ==
  (alive /\ ~state_loaded /\ events = 0 /\ pc = "loop")
    => processed_count = Pops

(* C22, amended: processed_count counts the pops of URLs that were not yet
   visited. Whenever a process that started fresh is at the loop test,
   processed_count is the number of URLs it has marked visited, which is
   the number of its pops minus the pops it skipped at lines 214-217. *)
CountsNewPops ==
  (alive /\ ~state_loaded /\ pc = "loop")
    => /\ processed_count = Len(proc_log)
       /\ processed_count <= Pops

\* A fresh process is back at the loop test after a pop it skipped.
CountsNewPops_Witness ==
  /\ alive /\ ~state_loaded /\ pc = "loop" /\ events = 0
  /\ proc_log # << >> /\ url # proc_log[Len(proc_log)]
  /\ processed_count < Pops

\* s is an initial part of t.
IsPrefix(s, t) == Len(s) <= Len(t) /\ SubSeq(t, 1, Len(s)) = s

(* C23: crawl_log.txt is append-only. No step, of the start of a process or
   of its loop, removes or overwrites a line the log already holds: the log
   before the step is an initial part of the log after it. *)
LogAppendOnly == [][IsPrefix(log, log')]_vars

\* Positions inside save_state: the snapshot of the globals has been taken.
SavePcs == {"ss_dump", "ss_remove", "ss_rename", "ss_except"}

(* C24: the mapping log agrees with saved_count. No step rewrites a line of
   url_mapping.txt, and as long as no process was killed and no I/O
   operation failed (crawl steps, interrupts, checkpoints and resumes only),
   the number of its lines equals saved_count whenever a process is at the
   loop test and whenever a checkpoint is being written. *)
MappingAgreesWithCount ==
  [][/\ IsPrefix(mapping, mapping')
     /\ (alive' /\ ~killed' /\ ~faulted' /\ pc' \in {"loop"} \cup SavePcs)
          => Len(mapping') = saved_count']_vars

(* C25: crawl termination. Under fair progress a process that is in the
   while loop eventually is at the end of the loop with the queue empty or
   saved_count at the limit, although pages link to each other in cycles
   and the queue holds duplicates. *)
CrawlTerminates ==
  (alive /\ InLoop) ~> (alive /\ pc = "final" /\ ~LoopCond)

\* A process has left the loop with the queue empty, below the limit, after
\* skipping duplicate entries of the queue.
CrawlTerminates_Witness ==
  /\ alive /\ pc = "final" /\ queue = << >> /\ saved_count < limit
  /\ ~state_loaded /\ processed_count < Pops
  /\ Cardinality(SavedUrls) = Cardinality(Pages)

(* C26: a failed load leaves a clean fresh state. When crawler_state.pkl
   exists and load_state returned False, the run goes on with visited_urls
   empty and saved_count and processed_count 0. *)
FailedLoadClean ==
  (alive /\ pc \in {"init_queue", "open_log"} /\ ~state_loaded
         /\ state_file # NoFile)
    => /\ visited_urls = {}
       /\ saved_count = 0
       /\ processed_count = 0

\* The positions of an iteration between the GET of line 242 and the sleep
\* of line 287.
AcceptedPcs ==
  {"fetch", "store_html", "store_map", "store_inc", "log_saved", "limit",
   "links", "sleep"}
Accepted(u) == <<u, TRUE>> \in verdicts
\* The article file of each page of the site.
PageFilename == [u \in Pages |-> Filename(u)]
Rejected(u) == <<u, FALSE>> \in verdicts

(* C27: only classifier-accepted URLs reach the network and the store.
   Every URL of a GET, of a line of url_mapping.txt and of an article file
   has the verdict True, and the GET, the save and the pushing of links are
   done for such a URL only; a URL with the verdict False has been added to
   visited_urls and counted in processed_count when the iteration ends. *)
OnlyAcceptedReachNetworkAndStore ==
  /\ \A i \in DOMAIN fetch_log : Accepted(fetch_log[i])
  /\ \A i \in DOMAIN mapping : Accepted(mapping[i].url)
  /\ \A f \in files : \E u \in Pages : Accepted(u) /\ f = PageFilename[u]
  /\ (alive /\ pc \in AcceptedPcs) => Accepted(url) /\ ~Rejected(url)
  /\ (alive /\ pc = "loop" /\ url # NoUrl /\ Rejected(url))
       => /\ url \in visited_urls
          /\ proc_log # << >> /\ proc_log[Len(proc_log)] = url
          /\ processed_count >= Len(proc_log)
          /\ ~Contains(fetch_log, url)

\* A URL that some page links to has been rejected: it is in visited_urls,
\* no GET was made for it and the queue holds what it held when it was
\* popped.
OnlyAcceptedReachNetworkAndStore_Witness ==
  /\ alive /\ pc = "loop" /\ Rejected(url)
  /\ url \in visited_urls /\ ~Contains(fetch_log, url)
  /\ fetch_log # << >>
  /\ \A i \in DOMAIN mapping : mapping[i].url # url

(* C28: processed_count tracks visited_urls. At the loop test of a run
   started fresh or resumed from a checkpoint the crawler wrote,
   processed_count is the number of URLs in visited_urls, and so it is in
   every checkpoint file the crawler has written. *)
ProcessedTracksVisited ==
  /\ (alive /\ pc = "loop") => processed_count = Cardinality(visited_urls)
  /\ state_file.kind = "pickle"
       => state_file.processed_count = Len(state_file.visited_urls)

====
